---- MODULE Spec2Model ----
(***************************************************************************)
(* A model of the path tracer of raytracing-one-weekend-rs:                *)
(*   src/src/main.rs      main (the sampling loop), write_color, ray_color,*)
(*                        get_background_color, clamp                      *)
(*   src/src/material.rs  reflect, refract, near_zero, clamp, the random   *)
(*                        helpers and the Metal, Lambertian and Dielectric *)
(*                        materials                                        *)
(*                                                                         *)
(* f64 values are modelled as exact extended rationals <<n, d>> (d >= 0,   *)
(* in lowest terms; <<1,0>> is +infinity, <<-1,0>> is -infinity and        *)
(* <<0,0>> is NaN), so every comparison the code makes is decided exactly. *)
(* f64 rounding is not modelled.                                           *)
(***************************************************************************)
EXTENDS Integers, Sequences, FiniteSets, TLC

\* ------------------------------------------------------------------ bounds
MaxW == 3
MaxH == 2
MaxSpp == 2
MaxDepth == 3

\* ------------------------------------------------- f64 as extended rationals
RECURSIVE GCD(_, _)
GCD(a, b) == IF b = 0 THEN a ELSE GCD(b, a % b)

Abs(n) == IF n < 0 THEN -n ELSE n

Sgn(n) == IF n < 0 THEN -1 ELSE IF n > 0 THEN 1 ELSE 0

\* the f64 with value n/d
R(n, d) ==
    IF d = 0 THEN <<Sgn(n), 0>>
    ELSE LET g == GCD(Abs(n), Abs(d))
             s == IF d < 0 THEN -1 ELSE 1
         IN  <<(s * n) \div g, (s * d) \div g>>

Zero == R(0, 1)
One == R(1, 1)

RAdd(a, b) == R(a[1] * b[2] + b[1] * a[2], a[2] * b[2])
RNeg(a) == <<-a[1], a[2]>>
RSub(a, b) == RAdd(a, RNeg(b))
\* cross-reduced before multiplying, so that the products stay small
RMul(a, b) ==
    IF a[2] = 0 \/ b[2] = 0 THEN R(a[1] * b[1], 0)
    ELSE LET g1 == GCD(Abs(a[1]), b[2])
             g2 == GCD(Abs(b[1]), a[2])
             h1 == IF g1 = 0 THEN 1 ELSE g1
             h2 == IF g2 = 0 THEN 1 ELSE g2
         IN  R((a[1] \div h1) * (b[1] \div h2), (a[2] \div h2) * (b[2] \div h1))
RDiv(a, b) == R(a[1] * b[2], a[2] * b[1])
RAbs(a) == <<Abs(a[1]), a[2]>>
\* IEEE comparisons: every comparison with NaN is false
RLt(a, b) == a[1] * b[2] < b[1] * a[2]
RGt(a, b) == RLt(b, a)
RLe(a, b) == a[1] * b[2] <= b[1] * a[2] /\ a # <<0, 0>> /\ b # <<0, 0>>

\* floor of the square root of a natural number, by bisection
RECURSIVE ISqrtIn(_, _, _)
ISqrtIn(m, lo, hi) ==
    IF hi - lo <= 1 THEN lo
    ELSE LET mid == (lo + hi) \div 2
         IN  IF mid * mid <= m THEN ISqrtIn(m, mid, hi) ELSE ISqrtIn(m, lo, mid)

ISqrt(m) == ISqrtIn(m, 0, IF m < 46340 THEN m + 1 ELSE 46340)

\* f64::sqrt: exact when n/d is the square of a rational, otherwise rounded
\* down to a multiple of 1/(d*k), k the largest of 1000, 100, 10, 1 that keeps
\* the radicand within the integers (f64 rounds to 53 bits); NaN below zero.
RSqrt(a) ==
    IF a[1] < 0 \/ a = <<0, 0>> THEN <<0, 0>>
    ELSE IF a[2] = 0 THEN a
    ELSE LET m == a[1] * a[2]
             k == IF m < 2000 THEN 1000
                  ELSE IF m < 200000 THEN 100
                  ELSE IF m < 20000000 THEN 10 ELSE 1
         IN  R(ISqrt(m * k * k), a[2] * k)

\* ---------------------------------------------------------- Vector3<f64>
VInt(x, y, z, d) == <<R(x, d), R(y, d), R(z, d)>>
VAdd(a, b) == <<RAdd(a[1], b[1]), RAdd(a[2], b[2]), RAdd(a[3], b[3])>>
VSub(a, b) == <<RSub(a[1], b[1]), RSub(a[2], b[2]), RSub(a[3], b[3])>>
VNeg(a) == <<RNeg(a[1]), RNeg(a[2]), RNeg(a[3])>>
VScale(k, a) == <<RMul(k, a[1]), RMul(k, a[2]), RMul(k, a[3])>>
VMul(a, b) == <<RMul(a[1], b[1]), RMul(a[2], b[2]), RMul(a[3], b[3])>>
Dot(a, b) == RAdd(RAdd(RMul(a[1], b[1]), RMul(a[2], b[2])), RMul(a[3], b[3]))
magnitude_squared(a) == Dot(a, a)
normalize(a) == VScale(RDiv(One, RSqrt(magnitude_squared(a))), a)

VZero == VInt(0, 0, 0, 1)
VOnes == VInt(1, 1, 1, 1)

\* a non-negative real given by its square: Root(q) is sqrt(q). write_color
\* only compares, scales and truncates square roots, which this form does
\* exactly.
Root(q) == [sq |-> q]
RootOf(r) == Root(RMul(r, r))
RootLt(a, b) == RLt(a.sq, b.sq)
RootGt(a, b) == RGt(a.sq, b.sq)
RootScale(k, a) == Root(RMul(RMul(k, k), a.sq))
\* `as i32` of a non-negative f64: truncation; NaN gives 0
RootTrunc(a) == IF a.sq[2] = 0 THEN 0 ELSE ISqrt(a.sq[1] \div a.sq[2])

\* ------------------------------------------------------------------ state
VARIABLES
    pc,             \* main: the statement main is at
    W, H, spp,      \* main: img_width, img_height, samples_per_pixel
    yi, x, s,       \* main: position of the three nested loops
    sampled_pixel,  \* main: the colour accumulated for pixel (x, y)
    u, v,           \* main: the coordinates last passed to camera.get_ray
    out,            \* stdout: for each line, what it is the line of
    line,           \* stdout: the three integers of the last pixel line
    err,            \* stderr
    frames,         \* ray_color: the call stack, innermost frame last
    ret,            \* ray_color: the value the last return produced
    trace,          \* ray_color: what scene.hit and scatter answered so far
    cnt,            \* ray_color: calls counted
    mat,            \* material: the material constructed
    call            \* material: the last call, its arguments and its result

mainVars == <<pc, W, H, spp, yi, x, s, sampled_pixel, u, v, out, line, err>>
rayVars == <<frames, ret, trace, cnt>>
matVars == <<mat, call>>
vars == <<mainVars, rayVars, matVars>>

\* ------------------------------------------------------------ main.rs
\* rng.gen_range(0.0, 1.0): values of [0, 1)
Jitters == {R(0, 1), R(1, 2)}

\* values ray_color returns for the scene of main (albedos within [0,1])
SampleColours == {VInt(0, 0, 0, 1), VInt(1, 1, 1, 1), VInt(5, 7, 10, 10)}

main_clamp_nomax(xv, min, max) ==
    IF RootLt(xv, min) THEN min ELSE xv

main_clamp(xv, min, max) ==
    IF RootLt(xv, min) THEN min ELSE IF RootGt(xv, max) THEN max ELSE xv

channel(c, samples_per_pixel) ==
    LET scale == RDiv(One, samples_per_pixel)
        r == Root(RMul(c, scale))
    IN  RootTrunc(RootScale(R(256, 1), main_clamp(r, RootOf(Zero), RootOf(R(999, 1000)))))

write_color(color, samples_per_pixel) ==
    <<channel(color[1], samples_per_pixel),
      channel(color[2], samples_per_pixel),
      channel(color[3], samples_per_pixel)>>

\* (0..img_height).rev(): the rows in the order the outer loop visits them
rows_fwd(h) == [i \in 1..h |-> i - 1]

rows(h) == [i \in 1..h |-> h - i]

y == IF yi \in 1..H THEN rows(H)[yi] ELSE -1

PrintHeader ==
    /\ pc = "start"
    /\ out' = Append(out, [kind |-> "header", magic |-> "P3", w |-> W, h |-> H, maxval |-> 255])
    /\ yi' = 1
    /\ pc' = "rows"
    /\ UNCHANGED <<W, H, spp, x, s, sampled_pixel, u, v, line, err>>

NextRow ==
    /\ pc = "rows" /\ yi <= H
    /\ err' = Append(err, [remaining |-> y])
    /\ x' = 0
    /\ pc' = "cols"
    /\ UNCHANGED <<W, H, spp, yi, s, sampled_pixel, u, v, out, line>>

BeginPixel ==
    /\ pc = "cols" /\ x < W
    /\ sampled_pixel' = VZero
    /\ s' = 0
    /\ pc' = "samples"
    /\ UNCHANGED <<W, H, spp, yi, x, u, v, out, line, err>>

Sample ==
    /\ pc = "samples" /\ s < spp
    /\ \E ju \in Jitters, jv \in Jitters, colour \in SampleColours :
          /\ u' = RDiv(RAdd(R(x, 1), ju), R(W - 1, 1))
          /\ v' = RDiv(RAdd(R(y, 1), jv), R(H - 1, 1))
          /\ sampled_pixel' = VAdd(sampled_pixel, colour)
    /\ s' = s + 1
    /\ UNCHANGED <<pc, W, H, spp, yi, x, out, line, err>>

WritePixel ==
    /\ pc = "samples" /\ s = spp
    /\ out' = Append(out, [kind |-> "pixel", x |-> x, y |-> y])
    /\ line' = write_color(sampled_pixel, R(spp, 1))
    /\ x' = x + 1
    /\ pc' = "cols"
    /\ UNCHANGED <<W, H, spp, yi, s, sampled_pixel, u, v, err>>

EndRow ==
    /\ pc = "cols" /\ x >= W
    /\ yi' = yi + 1
    /\ pc' = "rows"
    /\ UNCHANGED <<W, H, spp, x, s, sampled_pixel, u, v, out, line, err>>

Finish ==
    /\ pc = "rows" /\ yi > H
    /\ err' = Append(err, [remaining |-> -1])
    /\ pc' = "done"
    /\ UNCHANGED <<W, H, spp, yi, x, s, sampled_pixel, u, v, out, line>>

NoCount == [hit |-> 0, scatter |-> 0, nest |-> 0, depth |-> 0, ray |-> [dir |-> VZero], scene |-> "none"]

Init ==
    /\ pc = "start"
    /\ W \in 1..MaxW
    /\ H \in 1..MaxH
    /\ spp \in 1..MaxSpp
    /\ yi = 0 /\ x = 0 /\ s = 0
    /\ sampled_pixel = VZero
    /\ u = Zero /\ v = Zero
    /\ out = <<>> /\ line = <<>> /\ err = <<>>
    /\ frames = <<>> /\ ret = VZero /\ trace = <<>> /\ cnt = NoCount
    /\ mat = [kind |-> "idle"] /\ call = [op |-> "idle"]

Next ==
    \/ PrintHeader /\ UNCHANGED <<rayVars, matVars>>
    \/ NextRow /\ UNCHANGED <<rayVars, matVars>>
    \/ BeginPixel /\ UNCHANGED <<rayVars, matVars>>
    \/ Sample /\ UNCHANGED <<rayVars, matVars>>
    \/ WritePixel /\ UNCHANGED <<rayVars, matVars>>
    \/ EndRow /\ UNCHANGED <<rayVars, matVars>>
    \/ Finish /\ UNCHANGED <<rayVars, matVars>>

Spec == Init /\ [][Next]_vars

\* ------------------------------------------------ ray_color (main.rs:88-119)
max_depth == 50

\* ray directions whose length is rational, so that normalize is exact
RayDirs == {VInt(0, 1, 0, 1), VInt(3, -4, 0, 1), VInt(0, 0, -2, 1)}
Rays == {[dir |-> d] : d \in RayDirs}
\* albedos of the materials of main
Attens == {VInt(8, 8, 0, 10), VInt(7, 3, 3, 10)}

get_background_color(ray) ==
    LET unit_dir == normalize(ray.dir)
        t == RMul(R(1, 2), RAdd(unit_dir[2], One))
    IN  VAdd(VScale(RSub(One, t), VInt(1, 1, 1, 1)), VScale(t, VInt(5, 7, 10, 10)))

\* main.rs:97: atten.zip_map(&ray_color(..), |l, r| l * r)
attenuate_not(atten, colour) == colour

attenuate(atten, colour) == VMul(atten, colour)

\* the depth given to the recursive call
next_depth_same(depth) == depth

next_depth(depth) == depth - 1

\* what hit.material.scatter may answer with Some: in the open scene any of
\* the albedos and directions; between two facing perfect mirrors the ray
\* comes straight back, with nothing absorbed
ScatterSome(scene, ray) ==
    IF scene = "open" THEN {[ray |-> r, atten |-> a] : r \in Rays, a \in Attens}
    ELSE {[ray |-> [dir |-> VNeg(ray.dir)], atten |-> VOnes]}

Top == frames[Len(frames)]
Pop == SubSeq(frames, 1, Len(frames) - 1)
SetTop(f) == [frames EXCEPT ![Len(frames)] = f]

\* main.rs:91-93
RcExhausted ==
    /\ frames # <<>> /\ Top.at = "entry" /\ Top.depth <= 0
    /\ frames' = Pop
    /\ ret' = VInt(0, 0, 0, 1)
    /\ UNCHANGED <<trace, cnt>>

RcEnter ==
    /\ frames # <<>> /\ Top.at = "entry" /\ ~(Top.depth <= 0)
    /\ frames' = SetTop([Top EXCEPT !.at = "hit"])
    /\ UNCHANGED <<ret, trace, cnt>>

\* main.rs:95, drawables.hit answers None: main.rs:101
RcMiss ==
    /\ frames # <<>> /\ Top.at = "hit" /\ cnt.scene = "open"
    /\ cnt' = [cnt EXCEPT !.hit = @ + 1]
    /\ trace' = Append(trace, [k |-> "miss"])
    /\ frames' = Pop
    /\ ret' = get_background_color(Top.ray)

\* main.rs:95, drawables.hit answers Some(hit)
RcHit ==
    /\ frames # <<>> /\ Top.at = "hit"
    /\ cnt' = [cnt EXCEPT !.hit = @ + 1]
    /\ frames' = SetTop([Top EXCEPT !.at = "scatter"])
    /\ UNCHANGED <<ret, trace>>

\* main.rs:96, scatter answers None: main.rs:99
RcAbsorb ==
    /\ frames # <<>> /\ Top.at = "scatter" /\ cnt.scene = "open"
    /\ cnt' = [cnt EXCEPT !.scatter = @ + 1]
    /\ trace' = Append(trace, [k |-> "absorb"])
    /\ frames' = Pop
    /\ ret' = VInt(0, 0, 0, 1)

\* main.rs:96-97, scatter answers Some((r, atten)): the recursive call
RcScatter ==
    /\ frames # <<>> /\ Top.at = "scatter"
    /\ \E o \in ScatterSome(cnt.scene, Top.ray) :
          /\ trace' = Append(trace, [k |-> "scatter", ray |-> o.ray, atten |-> o.atten])
          /\ frames' = Append(SetTop([Top EXCEPT !.at = "wait", !.atten = o.atten]),
                              [ray |-> o.ray, depth |-> next_depth(Top.depth),
                               at |-> "entry", atten |-> VOnes])
    /\ cnt' = [cnt EXCEPT !.scatter = @ + 1,
                          !.nest = IF Len(frames) + 1 > @ THEN Len(frames) + 1 ELSE @]
    /\ UNCHANGED ret

\* main.rs:97, the recursive call has returned: atten.zip_map(.., |l, r| l * r)
RcReturn ==
    /\ frames # <<>> /\ Top.at = "wait"
    /\ frames' = Pop
    /\ ret' = attenuate(Top.atten, ret)
    /\ UNCHANGED <<trace, cnt>>

RayNext ==
    \/ RcExhausted /\ UNCHANGED <<mainVars, matVars>>
    \/ RcEnter /\ UNCHANGED <<mainVars, matVars>>
    \/ RcMiss /\ UNCHANGED <<mainVars, matVars>>
    \/ RcHit /\ UNCHANGED <<mainVars, matVars>>
    \/ RcAbsorb /\ UNCHANGED <<mainVars, matVars>>
    \/ RcScatter /\ UNCHANGED <<mainVars, matVars>>
    \/ RcReturn /\ UNCHANGED <<mainVars, matVars>>

RayInit ==
    /\ pc = "idle" /\ W = 0 /\ H = 0 /\ spp = 0 /\ yi = 0 /\ x = 0 /\ s = 0
    /\ sampled_pixel = VZero /\ u = Zero /\ v = Zero
    /\ out = <<>> /\ line = <<>> /\ err = <<>>
    /\ mat = [kind |-> "idle"] /\ call = [op |-> "idle"]
    /\ \E sc \in {"open", "mirrors"}, r \in Rays, d \in 0..max_depth :
          /\ (sc = "open" => d <= MaxDepth)
          /\ (sc = "mirrors" => d = max_depth /\ r.dir = VInt(0, 0, -2, 1))
          /\ frames = <<[ray |-> r, depth |-> d, at |-> "entry", atten |-> VOnes]>>
          /\ cnt = [hit |-> 0, scatter |-> 0, nest |-> 1, depth |-> d, ray |-> r, scene |-> sc]
    /\ ret = VZero
    /\ trace = <<>>

SpecRay == RayInit /\ [][RayNext]_vars

\* ------------------------------------------------------------ material.rs
\* f64::MAX, above every value the model compares it with
INFINITY == R(1, 0)

reflect(vv, n) == VSub(vv, VScale(RMul(R(2, 1), Dot(vv, n)), n))

clamp_to_range(xv, min, max) ==
    IF RLt(xv, RNeg(One)) THEN RNeg(One) ELSE IF RGt(xv, One) THEN One ELSE xv

clamp(xv, min, max) ==
    IF RLt(xv, min) THEN min ELSE IF RGt(xv, max) THEN max ELSE xv

\* values of rng.gen::<f64>(), in [0, 1), three at a time
GenTriples ==
    {VInt(5, 6, 6, 8), VInt(3, 2, 2, 8), VInt(4, 4, 2, 8), VInt(4, 4, 6, 8),
     VInt(6, 4, 4, 8), VInt(7, 7, 7, 8), VInt(0, 4, 4, 8)}

\* the points the rejection loop can return: those drawn in the cube
\* [-1, 1)^3 that lie strictly inside the unit sphere
random_in_unit_sphere ==
    {p \in {VSub(VScale(R(2, 1), g), VInt(1, 1, 1, 1)) : g \in GenTriples} :
        RLt(magnitude_squared(p), One)}

random_unit_vector == {normalize(p) : p \in random_in_unit_sphere}

near_zero(vec) ==
    LET sm == R(1, 100000000)
    IN  RLt(vec[1], sm) /\ RLt(vec[2], sm) /\ RLt(vec[3], sm)

refract(uv, n, etai_over_etat) ==
    LET cos_theta == clamp(Dot(VNeg(uv), n), One, INFINITY)
        r_out_perp == VScale(etai_over_etat, VAdd(uv, VScale(cos_theta, n)))
        r_out_parallel ==
            VScale(RNeg(RSqrt(RAbs(RSub(One, magnitude_squared(r_out_perp))))), n)
    IN  VAdd(r_out_perp, r_out_parallel)

None == [some |-> FALSE]
Some(r, atten) == [some |-> TRUE, ray |-> r, atten |-> atten]
Ray_new(origin, dir) == [orig |-> origin, dir |-> dir]

Metal_new(albedo, fuzz) ==
    [kind |-> "Metal", albedo |-> albedo, fuzz |-> IF RLt(fuzz, One) THEN fuzz ELSE One]

\* rnd: the point random_in_unit_sphere() returns, when it is called
Metal_scatter_ge(self, ray, hit, rnd) ==
    LET mirror == reflect(normalize(ray.dir), hit.normal)
        reflected == IF RGt(self.fuzz, Zero) THEN VAdd(mirror, VScale(self.fuzz, rnd)) ELSE mirror
    IN  IF RLe(Zero, Dot(reflected, hit.normal))
        THEN Some(Ray_new(hit.point, reflected), self.albedo)
        ELSE None

Metal_scatter(self, ray, hit, rnd) ==
    LET mirror == reflect(normalize(ray.dir), hit.normal)
        reflected == IF RGt(self.fuzz, Zero) THEN VAdd(mirror, VScale(self.fuzz, rnd)) ELSE mirror
    IN  IF RGt(Dot(reflected, hit.normal), Zero)
        THEN Some(Ray_new(hit.point, reflected), self.albedo)
        ELSE None

Lambertian_new(albedo) == [kind |-> "Lambertian", albedo |-> albedo]

\* rnd: the vector random_unit_vector() returns
Lambertian_scatter(self, ray, hit, rnd) ==
    LET sum == VAdd(hit.normal, rnd)
        scatter_direction == IF near_zero(sum) THEN hit.normal ELSE sum
    IN  Some(Ray_new(hit.point, scatter_direction), self.albedo)

Dielectric_new(ir) == [kind |-> "Dielectric", ir |-> ir]

\* the locals of Dielectric::scatter
Dielectric_locals(self, ray, hit) ==
    LET refraction_ratio == IF hit.front_face THEN RDiv(One, self.ir) ELSE self.ir
        unit_direction == normalize(ray.dir)
        cos_theta == clamp(Dot(VNeg(unit_direction), hit.normal), One, INFINITY)
        sin_theta == RSqrt(RSub(One, RMul(cos_theta, cos_theta)))
    IN  [refraction_ratio |-> refraction_ratio, unit_direction |-> unit_direction,
         cos_theta |-> cos_theta, sin_theta |-> sin_theta,
         cannot_refract |-> RGt(RMul(refraction_ratio, sin_theta), One)]

Dielectric_scatter(self, ray, hit) ==
    LET attenuation == VInt(1, 1, 1, 1)
        l == Dielectric_locals(self, ray, hit)
        direction == IF l.cannot_refract
                     THEN reflect(l.unit_direction, hit.normal)
                     ELSE refract(l.unit_direction, hit.normal, self.ir)
    IN  Some(Ray_new(hit.point, direction), attenuation)

\* the arguments the materials are called with
Albedos == {VInt(8, 6, 2, 10), VInt(7, 3, 3, 10)}
FuzzArgs == {R(-1, 2), R(0, 1), R(3, 10), R(1, 1), R(2, 1)}
IndexArgs == {R(1, 1), R(3, 2), R(2, 1), R(1, 2)}
InDirs == {VInt(0, 0, -2, 1), VInt(-1, -2, -2, 1), VInt(3, 0, -4, 1)}
Normals == {VInt(0, 0, 1, 1), VInt(2, -1, 2, 3), VInt(-1, 0, 0, 1), VInt(1, 2, 2, 3)}
InRays == {Ray_new(VInt(0, 0, 0, 1), d) : d \in InDirs}
\* a HitRecord's normal has unit length and opposes the incoming ray
Hits(ray) ==
    {h \in [point : {VInt(1, 2, -1, 1)}, normal : Normals, front_face : BOOLEAN] :
        RLe(Dot(ray.dir, h.normal), Zero)}

NotCalled == VInt(0, 0, 0, 1)

MatInit ==
    /\ pc = "idle" /\ W = 0 /\ H = 0 /\ spp = 0 /\ yi = 0 /\ x = 0 /\ s = 0
    /\ sampled_pixel = VZero /\ u = Zero /\ v = Zero
    /\ out = <<>> /\ line = <<>> /\ err = <<>>
    /\ frames = <<>> /\ ret = VZero /\ trace = <<>> /\ cnt = NoCount
    /\ mat = [kind |-> "none"] /\ call = [op |-> "none"]

\* a scatter call has answered and its caller has not yet taken the answer
Pending == call.op \in {"Metal::scatter", "Lambertian::scatter", "Dielectric::scatter"}

NewMetal ==
    /\ mat.kind = "none"
    /\ \E albedo \in Albedos, fuzz \in FuzzArgs :
        /\ mat' = Metal_new(albedo, fuzz)
        /\ call' = [op |-> "Metal::new", albedo |-> albedo, fuzz |-> fuzz]

NewLambertian ==
    /\ mat.kind = "none"
    /\ \E albedo \in Albedos :
        /\ mat' = Lambertian_new(albedo)
        /\ call' = [op |-> "Lambertian::new", albedo |-> albedo]

NewDielectric ==
    /\ mat.kind = "none"
    /\ \E ir \in IndexArgs :
        /\ mat' = Dielectric_new(ir)
        /\ call' = [op |-> "Dielectric::new", ir |-> ir]

ScatterMetal ==
    /\ mat.kind = "Metal" /\ ~Pending
    /\ \E ray \in InRays :
         \E hit \in Hits(ray) :
           \E rnd \in (IF RGt(mat.fuzz, Zero) THEN random_in_unit_sphere ELSE {NotCalled}) :
              call' = [op |-> "Metal::scatter", ray |-> ray, hit |-> hit, rnd |-> rnd,
                       rng_calls |-> IF RGt(mat.fuzz, Zero) THEN 1 ELSE 0,
                       result |-> Metal_scatter(mat, ray, hit, rnd)]
    /\ UNCHANGED mat

ScatterLambertian ==
    /\ mat.kind = "Lambertian" /\ ~Pending
    /\ \E ray \in InRays :
         \E hit \in Hits(ray) :
           \E rnd \in random_unit_vector :
              call' = [op |-> "Lambertian::scatter", ray |-> ray, hit |-> hit, rnd |-> rnd,
                       result |-> Lambertian_scatter(mat, ray, hit, rnd)]
    /\ UNCHANGED mat

ScatterDielectric ==
    /\ mat.kind = "Dielectric" /\ ~Pending
    /\ \E ray \in InRays :
         \E hit \in Hits(ray) :
              call' = [op |-> "Dielectric::scatter", ray |-> ray, hit |-> hit,
                       locals |-> Dielectric_locals(mat, ray, hit),
                       result |-> Dielectric_scatter(mat, ray, hit)]
    /\ UNCHANGED mat

\* main.rs:96-99: ray_color takes the answer of scatter
TakeAnswer ==
    /\ Pending
    /\ call' = [op |-> "returned"]
    /\ UNCHANGED mat

MatNext ==
    \/ TakeAnswer /\ UNCHANGED <<mainVars, rayVars>>
    \/ NewMetal /\ UNCHANGED <<mainVars, rayVars>>
    \/ NewLambertian /\ UNCHANGED <<mainVars, rayVars>>
    \/ NewDielectric /\ UNCHANGED <<mainVars, rayVars>>
    \/ ScatterMetal /\ UNCHANGED <<mainVars, rayVars>>
    \/ ScatterLambertian /\ UNCHANGED <<mainVars, rayVars>>
    \/ ScatterDielectric /\ UNCHANGED <<mainVars, rayVars>>

SpecMat == MatInit /\ [][MatNext]_vars

\* ------------------------------------------------------------------ claims

\* C1: the header is printed once, before every pixel line; then one line per
\* pixel in row-major order from the top row: the i-th pixel line (from 0) is
\* that of x = i mod W, y = H-1 - i div W, and W*H pixel lines are printed in
\* all.
C1_RowMajorOutput ==
    pc # "idle" =>
        /\ (out = <<>>) <=> (pc = "start")
        /\ out # <<>> => out[1] = [kind |-> "header", magic |-> "P3", w |-> W, h |-> H, maxval |-> 255]
        /\ \A i \in 2..Len(out) :
              out[i] = [kind |-> "pixel", x |-> (i - 2) % W, y |-> (H - 1) - ((i - 2) \div W)]
        /\ Len(out) <= 1 + W * H
        /\ pc = "done" => Len(out) = 1 + W * H

C1_Witness == pc = "done" /\ W >= 2 /\ H >= 2 /\ Len(out) = 1 + W * H

\* C4: the (u, v) the sampling loop passes to camera.get_ray lie in [0, 1]
\* (stated for images of at least 2 x 2 pixels, where the divisions by
\* width-1 and height-1 are defined).
C4_UVInUnitSquare ==
    (pc = "samples" /\ s > 0 /\ W >= 2 /\ H >= 2) =>
        /\ RLe(Zero, u) /\ RLe(u, One)
        /\ RLe(Zero, v) /\ RLe(v, One)

\* C5: each integer write_color prints is floor(256 * clamp(sqrt(c / spp), 0,
\* 0.999)): it lies in 0..255, is 255 when c / spp >= 1, is 0 when c = 0, and
\* otherwise is the k with (k/256)^2 <= c/spp < ((k+1)/256)^2.
C5_WriteColor ==
    (pc = "cols" /\ line # <<>>) =>
        \A i \in 1..3 :
            LET n == sampled_pixel[i][1]
                d == sampled_pixel[i][2] * spp
                k == line[i]
            IN  /\ k \in 0..255
                /\ n >= d => k = 255
                /\ n = 0 => k = 0
                /\ IF n * 1000000 > 998001 * d
                   THEN k = 255
                   ELSE k * k * d <= 65536 * n /\ 65536 * n < (k + 1) * (k + 1) * d

C5_Witness ==
    /\ pc = "cols" /\ line # <<>> /\ spp >= 2
    /\ line[3] = 255 /\ line[1] \in 1..254
    /\ sampled_pixel[3] = R(spp, 1)

\* the explicit loop of C2: a running product of attenuations and a remaining
\* depth, over the answers scene.hit and scatter gave (tr, from index i)
RECURSIVE ray_color_loop(_, _, _, _, _)
ray_color_loop(product, ray, depth, tr, i) ==
    IF depth <= 0 THEN VInt(0, 0, 0, 1)
    ELSE IF i > Len(tr) THEN VInt(-1, -1, -1, 1)
    ELSE IF tr[i].k = "miss" THEN VMul(product, get_background_color(ray))
    ELSE IF tr[i].k = "absorb" THEN VInt(0, 0, 0, 1)
    ELSE ray_color_loop(VMul(product, tr[i].atten), tr[i].ray, depth - 1, tr, i + 1)

\* C2: when ray_color(ray, scene, d) has returned, its value is that of the
\* explicit loop run on the same ray, depth and scene answers; with d = 0 it
\* is black.
C2_RecursionEqualsLoop ==
    (cnt.scene # "none" /\ frames = <<>>) =>
        /\ ret = ray_color_loop(VOnes, cnt.ray, cnt.depth, trace, 1)
        /\ cnt.depth = 0 => ret = VZero

C2_Witness ==
    /\ cnt.scene = "open" /\ frames = <<>>
    /\ Len(trace) = 3 /\ trace[3].k = "miss" /\ trace[1].atten # trace[2].atten
    /\ ret # VZero

\* the number of steps a call still has to make before the outermost call
\* returns, at most: a call with depth d returns within 4d + 1 steps, and
\* every frame below the innermost one has one step left, its return
StepsLeft ==
    IF frames = <<>> THEN 0
    ELSE (Len(frames) - 1)
         + (CASE Top.at = "entry" -> 4 * Top.depth + 1
              [] Top.at = "hit" -> 4 * Top.depth
              [] Top.at = "scatter" -> 4 * Top.depth - 1
              [] OTHER -> 1)

\* C3: a call ray_color(ray, scene, d), d >= 0, returns: until it has, a step
\* can always be taken and every step brings the return nearer (StepsLeft
\* decreases and is never negative); it never nests deeper than d + 1 frames
\* and makes at most d scene.hit tests and at most d scatter calls.
C3_Bounded ==
    /\ [](cnt.scene # "none" =>
            /\ Len(frames) <= cnt.depth + 1
            /\ cnt.nest <= cnt.depth + 1
            /\ cnt.hit <= cnt.depth
            /\ cnt.scatter <= cnt.depth
            /\ StepsLeft >= 0
            /\ frames # <<>> => Top.at \in {"entry", "hit", "scatter", "wait"})
    /\ [][StepsLeft' < StepsLeft]_vars

C3_Witness ==
    /\ cnt.scene = "mirrors" /\ cnt.depth = max_depth /\ frames = <<>>
    /\ cnt.scatter = max_depth /\ cnt.hit = max_depth /\ cnt.nest = max_depth + 1

\* C6: the fuzz Metal::new stores lies in [0, 1], and an argument already in
\* [0, 1] is stored unchanged.
C6_FuzzClamped ==
    call.op = "Metal::new" =>
        /\ RLe(Zero, mat.fuzz) /\ RLe(mat.fuzz, One)
        /\ (RLe(Zero, call.fuzz) /\ RLe(call.fuzz, One)) => mat.fuzz = call.fuzz

\* the mirror reflection of the incoming unit direction about the normal,
\* plus fuzz times the random point when fuzz > 0
FinalReflected ==
    LET unit == normalize(call.ray.dir)
        n == call.hit.normal
        twice == RMul(R(2, 1), Dot(unit, n))
        mirror == [i \in 1..3 |-> RSub(unit[i], RMul(twice, n[i]))]
    IN  IF RGt(mat.fuzz, Zero)
        THEN [i \in 1..3 |-> RAdd(mirror[i], RMul(mat.fuzz, call.rnd[i]))]
        ELSE mirror

\* C7: Metal scatter answers Some exactly when the final reflected direction
\* has a strictly positive dot product with hit.normal; the ray it answers
\* with starts at hit.point, has that direction and attenuation albedo; with
\* fuzz = 0 no random point is used, and a ray of normal incidence comes back
\* along hit.normal.
C7_MetalScatter ==
    call.op = "Metal::scatter" =>
        /\ call.result.some <=> RGt(Dot(FinalReflected, call.hit.normal), Zero)
        /\ call.result.some =>
              /\ call.result.ray.orig = call.hit.point
              /\ call.result.ray.dir = FinalReflected
              /\ call.result.atten = mat.albedo
              /\ RGt(Dot(call.result.ray.dir, call.hit.normal), Zero)
        /\ mat.fuzz = Zero => call.rng_calls = 0
        /\ (mat.fuzz = Zero /\ normalize(call.ray.dir) = VNeg(call.hit.normal)) =>
              call.result.some /\ call.result.ray.dir = call.hit.normal

C7_Witness ==
    /\ call.op = "Metal::scatter" /\ RGt(mat.fuzz, Zero)
    /\ RLt(Dot(call.ray.dir, call.hit.normal), Zero)
    /\ ~call.result.some

\* C8: a Dielectric with ir = 1 answers Some with attenuation (1,1,1), origin
\* hit.point and the unit-normalized incoming direction, unbent.
C8_MatchedIndexNoBending ==
    (call.op = "Dielectric::scatter" /\ mat.ir = One) =>
        /\ call.result.some
        /\ call.result.atten = VOnes
        /\ call.result.ray.orig = call.hit.point
        /\ call.result.ray.dir = normalize(call.ray.dir)

\* C9: Lambertian scatter always answers Some with origin hit.point and
\* attenuation albedo; its direction is hit.normal when every component of
\* hit.normal + random_unit_vector() is within 1e-8 of zero, and that sum
\* otherwise.
C9_LambertianScatter ==
    call.op = "Lambertian::scatter" =>
        LET sum == VAdd(call.hit.normal, call.rnd)
            tiny == \A i \in 1..3 : RLt(RAbs(sum[i]), R(1, 100000000))
        IN  /\ call.result.some
            /\ call.result.ray.orig = call.hit.point
            /\ call.result.atten = mat.albedo
            /\ call.result.ray.dir = IF tiny THEN call.hit.normal ELSE sum

\* C10: Dielectric scatter never reflects: cos_theta is 1, sin_theta is 0,
\* cannot_refract is false, and the direction is refract(unit_direction,
\* hit.normal, ir), with ir itself.
C10_NeverReflects ==
    call.op = "Dielectric::scatter" =>
        /\ call.locals.cos_theta = One
        /\ call.locals.sin_theta = Zero
        /\ ~call.locals.cannot_refract
        /\ call.result.ray.dir = refract(normalize(call.ray.dir), call.hit.normal, mat.ir)

\* a call where Snell's law has no solution: leaving the denser medium
\* (ir = 2, back face) at cos = 3/5, sin = 4/5, so that 2 * 4/5 > 1
C10_Witness ==
    /\ call.op = "Dielectric::scatter" /\ mat.ir = R(2, 1) /\ ~call.hit.front_face
    /\ Dot(normalize(call.ray.dir), call.hit.normal) = R(-3, 5)
    /\ call.result.some

====
